---- MODULE Spec2Model ----
(***************************************************************************)
(* psmovehub: evdev reader (src/src/evdev-reader.ts), button map           *)
(* (src/src/button-map.ts) and the Socket.IO service manager               *)
(* (src/src/server.ts).                                                    *)
(*                                                                         *)
(* Timestamps (Date.now()), log output and the device path string carry no *)
(* control flow and are left out of the state.                             *)
(***************************************************************************)
EXTENDS Integers, Sequences, FiniteSets, TLC

\* ───── bounds ─────────────────────────────────────────────────────────────
MaxSockets == 2
MaxReaderSockets == 1
MaxReaders == 2
\* A raw axis value far outside the native ranges (used with either sign).
FarValue == 1073741824

\* ───── program constants ──────────────────────────────────────────────────
EV_SYN == 0
EV_KEY == 1
EV_ABS == 3
EVENT_SIZE_64 == 24
EVENT_SIZE_32 == 16
AMBIGUOUS_BTN_SOUTH == 304
BTN_SOUTH_USB == "cross"
BTN_SOUTH_BT == "ps"
DEADZONE_MIN == 118
DEADZONE_MAX == 138
DEADZONE_CENTER == 128

BUTTON_MAP ==
    (289 :> "l3") @@ (292 :> "dpad_up") @@ (293 :> "dpad_right") @@
    (294 :> "dpad_down") @@ (295 :> "dpad_left") @@ (296 :> "l2") @@
    (298 :> "l1") @@ (301 :> "circle") @@ (302 :> "cross") @@
    (305 :> "circle") @@ (310 :> "l1") @@ (312 :> "l2") @@ (316 :> "ps") @@
    (317 :> "l3") @@ (544 :> "dpad_up") @@ (545 :> "dpad_down") @@
    (546 :> "dpad_left") @@ (547 :> "dpad_right")

AXIS_MAP == (0 :> "stick_x") @@ (1 :> "stick_y") @@ (2 :> "l2_analog")

DPAD_AXIS_MAP ==
    (16 :> [neg |-> "dpad_left", pos |-> "dpad_right"]) @@
    (17 :> [neg |-> "dpad_up", pos |-> "dpad_down"])

\* ───── value spaces ────────────────────────────────────────────────────────
\* socket.data.serviceName is `string | null`; Null stands for null.
Null == "<null>"
Names == {"", "A"}
NoSocket == 0

VARIABLES
    sockets,            \* io.sockets.sockets: socket id -> socket.data
    registeredClients,  \* server.ts registeredClients
    activeIndex,        \* server.ts activeIndex (0-based, -1 = none)
    deviceConnected,    \* server.ts deviceConnected
    readers,            \* live EvdevReader objects: reader id -> fields
    starting,           \* startEvdevReader() calls awaiting findControllerDevice()
    timers,             \* pending setTimeout(startEvdevReader, 3000)
    sent,               \* messages emitted by the handler that ran last
    lastOp,             \* the handler that ran last, with its inputs
    cycleRun,           \* cycleActiveClient calls since the registry last changed
    axisLog,            \* the last axis event each session emitted, per axis
    navClients,         \* PSNavClient objects: socket id -> isActive
    dpadPressed         \* the D-pad buttons each session's hat frames hold pressed

vars == <<sockets, registeredClients, activeIndex, deviceConnected, readers,
          starting, timers, sent, lastOp, cycleRun, axisLog, navClients,
          dpadPressed>>

\* ───── messages ────────────────────────────────────────────────────────────
\* One shape for every emitted message: `to` is the set of receiving sockets.
Msg(to, ev, name, list, idx, key, val) ==
    [to |-> to, ev |-> ev, name |-> name, list |-> list, idx |-> idx,
     key |-> key, val |-> val]

Activated(s, name) == Msg({s}, "client:activated", name, <<>>, -1, "", 0)
Deactivated(s, name) == Msg({s}, "client:deactivated", name, <<>>, -1, "", 0)

NavEvt(kind, name, pressed, value) ==
    [kind |-> kind, name |-> name, pressed |-> pressed, value |-> value]

\* lastOp: the handler, its socket or reader, the name it was given, the nav
\* events the reader emitted in it, the position the socket had in the
\* registry when it began (-1 = none) and activeIndex when it began.
Op(op, sock, name, nav, idx, prev) ==
    [op |-> op, sock |-> sock, name |-> name, nav |-> nav, idx |-> idx,
     prev |-> prev]

\* ───── service manager (server.ts) ────────────────────────────────────────
\* The router operators work on a record st with the fields
\* sockets, registeredClients, activeIndex, sent.
RouterState ==
    [sockets |-> sockets, registeredClients |-> registeredClients,
     activeIndex |-> activeIndex, sent |-> <<>>]

Emit(st, m) == [st EXCEPT !.sent = Append(@, m)]

\* registeredClients[activeIndex] with activeIndex past the end would throw;
\* the snapshot then carries no name.
getClientListInfo(st) ==
    [clients |-> st.registeredClients,
     activeIndex |-> st.activeIndex,
     activeServiceName |->
        IF st.activeIndex >= 0 /\ st.activeIndex < Len(st.registeredClients)
        THEN st.registeredClients[st.activeIndex + 1].serviceName
        ELSE Null]

ClientList(to, info) ==
    Msg(to, "client:list", info.activeServiceName, info.clients,
        info.activeIndex, "", 0)

broadcastClientList(st) ==
    Emit(st, ClientList(DOMAIN st.sockets, getClientListInfo(st)))

getActiveSocket(st) ==
    IF st.activeIndex < 0 \/ st.activeIndex >= Len(st.registeredClients)
    THEN NoSocket
    ELSE LET entry == st.registeredClients[st.activeIndex + 1]
         IN IF entry.socketId \in DOMAIN st.sockets
            THEN entry.socketId ELSE NoSocket

\* JavaScript truthiness of socket.data.serviceName: null and "" are falsy.
Falsy(name) == name = Null \/ name = ""

getUnregisteredSockets(st) ==
    {s \in DOMAIN st.sockets : Falsy(st.sockets[s].serviceName)}

\* findIndex: 0-based position of the entry of socketId, -1 when absent.
findIndex(clients, socketId) ==
    IF \E i \in 1..Len(clients) : clients[i].socketId = socketId
    THEN (CHOOSE i \in 1..Len(clients) :
            /\ clients[i].socketId = socketId
            /\ \A j \in 1..(i - 1) : clients[j].socketId # socketId) - 1
    ELSE -1

\* Array.prototype.splice(idx, 1) with a 0-based idx.
splice(clients, idx) ==
    [i \in 1..(Len(clients) - 1) |->
        IF i <= idx THEN clients[i] ELSE clients[i + 1]]

\* emitNavEvent that serves the observers and forgets the active client.
emitNavEvent_observersOnly(st, ev, key, val) ==
    LET obs == getUnregisteredSockets(st)
    IN IF obs # {}
       THEN Emit(st, Msg(obs, ev, Null, <<>>, -1, key, val))
       ELSE st

emitNavEvent(st, ev, key, val) ==
    LET active == getActiveSocket(st)
        st1 == IF active # NoSocket
               THEN Emit(st, Msg({active}, ev, Null, <<>>, -1, key, val))
               ELSE st
        obs == getUnregisteredSockets(st1)
    IN IF obs # {}
       THEN Emit(st1, Msg(obs, ev, Null, <<>>, -1, key, val))
       ELSE st1

\* registerClient without the findIndex lookup: every call pushes an entry.
registerClient_push(st, socket, serviceName) ==
    LET clients1 == Append(st.registeredClients,
                           [socketId |-> socket, serviceName |-> serviceName])
        st1 == [st EXCEPT !.registeredClients = clients1,
                          !.sockets[socket].serviceName = serviceName]
        st2 == IF Len(clients1) = 1
               THEN Emit([st1 EXCEPT !.activeIndex = 0],
                         Activated(socket, serviceName))
               ELSE st1
    IN broadcastClientList(st2)

\* registerClient auto-activating on `length >= 1` instead of `length === 1`.
registerClient_activate(st, socket, serviceName) ==
    LET existing == findIndex(st.registeredClients, socket)
        clients1 ==
            IF existing >= 0
            THEN [st.registeredClients EXCEPT ![existing + 1].serviceName = serviceName]
            ELSE Append(st.registeredClients,
                        [socketId |-> socket, serviceName |-> serviceName])
        st1 == [st EXCEPT !.registeredClients = clients1,
                          !.sockets[socket].serviceName = serviceName]
        st2 == IF Len(clients1) >= 1
               THEN Emit([st1 EXCEPT !.activeIndex = 0],
                         Activated(socket, serviceName))
               ELSE st1
    IN broadcastClientList(st2)

registerClient(st, socket, serviceName) ==
    LET existing == findIndex(st.registeredClients, socket)
        clients1 ==
            IF existing >= 0
            THEN [st.registeredClients EXCEPT ![existing + 1].serviceName = serviceName]
            ELSE Append(st.registeredClients,
                        [socketId |-> socket, serviceName |-> serviceName])
        st1 == [st EXCEPT !.registeredClients = clients1,
                          !.sockets[socket].serviceName = serviceName]
        st2 == IF Len(clients1) = 1
               THEN Emit([st1 EXCEPT !.activeIndex = 0],
                         Activated(socket, serviceName))
               ELSE st1
    IN broadcastClientList(st2)

\* unregisterClient without the `idx < activeIndex` shift.
unregisterClient_noShift(st, socketId) ==
    LET idx == findIndex(st.registeredClients, socketId)
    IN IF idx < 0 THEN st
       ELSE
        LET clients1 == splice(st.registeredClients, idx)
            st1 == [st EXCEPT !.registeredClients = clients1]
            st2 ==
              IF Len(clients1) = 0 THEN [st1 EXCEPT !.activeIndex = -1]
              ELSE IF idx = st.activeIndex THEN
                LET st3 == [st1 EXCEPT !.activeIndex = st.activeIndex % Len(clients1)]
                    next == getActiveSocket(st3)
                IN IF next # NoSocket
                   THEN Emit(st3, Activated(next,
                            st3.registeredClients[st3.activeIndex + 1].serviceName))
                   ELSE st3
              ELSE st1
        IN broadcastClientList(st2)

\* unregisterClient that moves the index when the active client left but
\* does not notify the client that became active.
unregisterClient_silent(st, socketId) ==
    LET idx == findIndex(st.registeredClients, socketId)
    IN IF idx < 0 THEN st
       ELSE
        LET clients1 == splice(st.registeredClients, idx)
            st1 == [st EXCEPT !.registeredClients = clients1]
            st2 ==
              IF Len(clients1) = 0 THEN [st1 EXCEPT !.activeIndex = -1]
              ELSE IF idx = st.activeIndex
              THEN [st1 EXCEPT !.activeIndex = st.activeIndex % Len(clients1)]
              ELSE IF idx < st.activeIndex
                   THEN [st1 EXCEPT !.activeIndex = st.activeIndex - 1]
                   ELSE st1
        IN broadcastClientList(st2)

\* unregisterClient without the `if (idx < 0) return`: splice(-1, 1) removes
\* the last entry.
unregisterClient_noGuard(st, socketId) ==
    LET idx == findIndex(st.registeredClients, socketId)
        clients1 == IF idx >= 0 THEN splice(st.registeredClients, idx)
                    ELSE SubSeq(st.registeredClients, 1, Len(st.registeredClients) - 1)
        st1 == [st EXCEPT !.registeredClients = clients1]
        st2 ==
          IF Len(clients1) = 0 THEN [st1 EXCEPT !.activeIndex = -1]
          ELSE IF idx = st.activeIndex THEN
            LET st3 == [st1 EXCEPT !.activeIndex = st.activeIndex % Len(clients1)]
                next == getActiveSocket(st3)
            IN IF next # NoSocket
               THEN Emit(st3, Activated(next,
                        st3.registeredClients[st3.activeIndex + 1].serviceName))
               ELSE st3
          ELSE IF idx < st.activeIndex
               THEN [st1 EXCEPT !.activeIndex = st.activeIndex - 1]
               ELSE st1
    IN broadcastClientList(st2)

\* unregisterClient that leaves nobody active when the active client left.
unregisterClient_deactivate(st, socketId) ==
    LET idx == findIndex(st.registeredClients, socketId)
    IN IF idx < 0 THEN st
       ELSE
        LET clients1 == splice(st.registeredClients, idx)
            st1 == [st EXCEPT !.registeredClients = clients1]
            st2 ==
              IF Len(clients1) = 0 \/ idx = st.activeIndex
              THEN [st1 EXCEPT !.activeIndex = -1]
              ELSE IF idx < st.activeIndex
                   THEN [st1 EXCEPT !.activeIndex = st.activeIndex - 1]
                   ELSE st1
        IN broadcastClientList(st2)

unregisterClient(st, socketId) ==
    LET idx == findIndex(st.registeredClients, socketId)
    IN IF idx < 0 THEN st
       ELSE
        LET clients1 == splice(st.registeredClients, idx)
            st1 == [st EXCEPT !.registeredClients = clients1]
            st2 ==
              IF Len(clients1) = 0 THEN [st1 EXCEPT !.activeIndex = -1]
              ELSE IF idx = st.activeIndex THEN
                LET st3 == [st1 EXCEPT !.activeIndex = st.activeIndex % Len(clients1)]
                    next == getActiveSocket(st3)
                IN IF next # NoSocket
                   THEN Emit(st3, Activated(next,
                            st3.registeredClients[st3.activeIndex + 1].serviceName))
                   ELSE st3
              ELSE IF idx < st.activeIndex
                   THEN [st1 EXCEPT !.activeIndex = st.activeIndex - 1]
                   ELSE st1
        IN broadcastClientList(st2)

\* cycleActiveClient advancing without the wraparound to index 0.
cycleActiveClient_noWrap(st) ==
    IF Len(st.registeredClients) = 0 THEN st
    ELSE
      LET prevSocket == getActiveSocket(st)
          st1 == IF prevSocket # NoSocket /\ st.activeIndex >= 0
                 THEN Emit(st, Deactivated(prevSocket,
                          st.registeredClients[st.activeIndex + 1].serviceName))
                 ELSE st
          st2 == [st1 EXCEPT !.activeIndex =
                     IF st.activeIndex + 1 < Len(st.registeredClients)
                     THEN st.activeIndex + 1 ELSE st.activeIndex]
          nextSocket == getActiveSocket(st2)
          st3 == IF nextSocket # NoSocket
                 THEN Emit(st2, Activated(nextSocket,
                          st2.registeredClients[st2.activeIndex + 1].serviceName))
                 ELSE st2
      IN broadcastClientList(st3)

\* cycleActiveClient that broadcasts the list before it moves the index.
cycleActiveClient_staleList(st) ==
    IF Len(st.registeredClients) = 0 THEN st
    ELSE
      LET prevSocket == getActiveSocket(st)
          st0 == broadcastClientList(st)
          st1 == IF prevSocket # NoSocket /\ st.activeIndex >= 0
                 THEN Emit(st0, Deactivated(prevSocket,
                          st.registeredClients[st.activeIndex + 1].serviceName))
                 ELSE st0
          st2 == [st1 EXCEPT !.activeIndex =
                     (st.activeIndex + 1) % Len(st.registeredClients)]
          nextSocket == getActiveSocket(st2)
      IN IF nextSocket # NoSocket
         THEN Emit(st2, Activated(nextSocket,
                  st2.registeredClients[st2.activeIndex + 1].serviceName))
         ELSE st2

\* cycleActiveClient that notifies the next client before the previous one.
cycleActiveClient_activateFirst(st) ==
    IF Len(st.registeredClients) = 0 THEN st
    ELSE
      LET prevSocket == getActiveSocket(st)
          st1 == [st EXCEPT !.activeIndex =
                     (st.activeIndex + 1) % Len(st.registeredClients)]
          nextSocket == getActiveSocket(st1)
          st2 == IF nextSocket # NoSocket
                 THEN Emit(st1, Activated(nextSocket,
                          st1.registeredClients[st1.activeIndex + 1].serviceName))
                 ELSE st1
          st3 == IF prevSocket # NoSocket /\ st.activeIndex >= 0
                 THEN Emit(st2, Deactivated(prevSocket,
                          st.registeredClients[st.activeIndex + 1].serviceName))
                 ELSE st2
      IN broadcastClientList(st3)

cycleActiveClient(st) ==
    IF Len(st.registeredClients) = 0 THEN st
    ELSE
      LET prevSocket == getActiveSocket(st)
          st1 == IF prevSocket # NoSocket /\ st.activeIndex >= 0
                 THEN Emit(st, Deactivated(prevSocket,
                          st.registeredClients[st.activeIndex + 1].serviceName))
                 ELSE st
          st2 == [st1 EXCEPT !.activeIndex =
                     (st.activeIndex + 1) % Len(st.registeredClients)]
          nextSocket == getActiveSocket(st2)
          st3 == IF nextSocket # NoSocket
                 THEN Emit(st2, Activated(nextSocket,
                          st2.registeredClients[st2.activeIndex + 1].serviceName))
                 ELSE st2
      IN broadcastClientList(st3)

\* reader.on('nav', ...) of startEvdevReader.
onNav(st, event) ==
    IF event.kind = "button" /\ event.name = "ps" /\ event.pressed
    THEN cycleActiveClient(st)
    ELSE IF event.kind = "button"
    THEN emitNavEvent(st, "nav:button", event.name, IF event.pressed THEN 1 ELSE 0)
    ELSE IF event.kind = "axis"
    THEN emitNavEvent(st, "nav:axis", event.name, event.value)
    ELSE st

\* The reader emits its nav events synchronously, one listener call each.
RECURSIVE onNavAll(_, _)
onNavAll(st, events) ==
    IF events = <<>> THEN st
    ELSE onNavAll(onNav(st, Head(events)), Tail(events))

\* The raw listener with `if (active)` for `if (active?.data.wantsRaw)`.
onRaw_activeAlways(st, raw) ==
    LET active == getActiveSocket(st)
        st1 == IF active # NoSocket
               THEN Emit(st, Msg({active}, "nav:raw", Null, <<>>, raw.type,
                                 "raw", raw.value))
               ELSE st
        obs == {s \in getUnregisteredSockets(st1) : st1.sockets[s].wantsRaw}
    IN IF obs # {}
       THEN Emit(st1, Msg(obs, "nav:raw", Null, <<>>, raw.type, "raw", raw.value))
       ELSE st1

\* reader.on('raw', ...) of startEvdevReader.
onRaw(st, raw) ==
    LET active == getActiveSocket(st)
        st1 == IF active # NoSocket /\ st.sockets[active].wantsRaw
               THEN Emit(st, Msg({active}, "nav:raw", Null, <<>>, raw.type,
                                 "raw", raw.value))
               ELSE st
        obs == {s \in getUnregisteredSockets(st1) : st1.sockets[s].wantsRaw}
    IN IF obs # {}
       THEN Emit(st1, Msg(obs, "nav:raw", Null, <<>>, raw.type, "raw", raw.value))
       ELSE st1

\* ───── EvdevReader (evdev-reader.ts) ──────────────────────────────────────
\* A reader object: fd ("null" or "open"), reading, inputMode, dpadState
\* (hat code -> last value, defined for the codes seen), lastStickValue
\* (axis -> last emitted value, defined for the axes emitted), and the
\* callbacks it has outstanding: reads (fs.read) and immediates (setImmediate).
\* buf holds the bytes of the last full frame where frames are read as bytes
\* (ReadBuffer), and stays empty where they are given decoded (ReadFrame).
NewReader ==
    [fd |-> "null", reading |-> FALSE, inputMode |-> "unknown",
     dpadState |-> <<>>, lastStickValue |-> <<>>, reads |-> 0, immediates |-> 0,
     buf |-> <<>>]

Raw(type, code, value) == [type |-> type, code |-> code, value |-> value]

\* ───── Buffer reads and parseEvent ────────────────────────────────────────
\* A buffer is a sequence of bytes; offsets are 0-based as in the source.
\* A time field does not fit a 32-bit integer, so a non-negative number that
\* may exceed 2^31 is held as its base-256 digits, lowest first.
EventSize(is32bit) == IF is32bit THEN EVENT_SIZE_32 ELSE EVENT_SIZE_64

readUInt16LE(buf, offset) == buf[offset + 1] + buf[offset + 2] * 256

\* first + b1 * 2**8 + b2 * 2**16 + (last << 24), `<<` being a signed shift.
readInt32LE(buf, offset) ==
    LET last == buf[offset + 4]
    IN buf[offset + 1] + buf[offset + 2] * 256 + buf[offset + 3] * 65536
       + (IF last >= 128 THEN last - 256 ELSE last) * 16777216

readUInt32LE(buf, offset) == SubSeq(buf, offset + 1, offset + 4)

readBigUInt64LE(buf, offset) == SubSeq(buf, offset + 1, offset + 8)

BitLength(b) ==
    IF b >= 128 THEN 8 ELSE IF b >= 64 THEN 7 ELSE IF b >= 32 THEN 6
    ELSE IF b >= 16 THEN 5 ELSE IF b >= 8 THEN 4 ELSE IF b >= 4 THEN 3
    ELSE IF b >= 2 THEN 2 ELSE IF b >= 1 THEN 1 ELSE 0

\* Adds carry c into the digits from position i on; a carry out of the last
\* digit adds a digit.
RECURSIVE AddCarry(_, _, _)
AddCarry(digits, i, c) ==
    IF c = 0 THEN digits
    ELSE IF i > Len(digits) THEN Append(digits, c)
    ELSE AddCarry([digits EXCEPT ![i] = (@ + c) % 256], i + 1,
                  (digits[i] + c) \div 256)

\* Number(bigint) of a 64-bit value: a double keeps 53 significant bits, so
\* the bits below them are rounded off, to nearest, ties to even.
Number(big) ==
    LET k == IF big[8] # 0 THEN 3 + BitLength(big[8])
             ELSE IF big[7] >= 32 THEN BitLength(big[7]) - 5
             ELSE 0
        low == big[1] + 256 * big[2]
        rem == low % (2 ^ k)
        up == \/ rem * 2 > 2 ^ k
              \/ rem * 2 = 2 ^ k /\ (low \div (2 ^ k)) % 2 = 1
        low1 == IF k > 0 /\ up THEN low - rem + 2 ^ k ELSE low - rem
    IN AddCarry(<<low1 % 256, (low1 \div 256) % 256>> \o SubSeq(big, 3, 8),
                3, low1 \div 65536)

\* parseEvent reading code where type is and type where code is.
parseEvent_swapped(eventSize, buf) ==
    IF eventSize = EVENT_SIZE_64
    THEN [timeSec |-> Number(readBigUInt64LE(buf, 0)),
          timeUsec |-> Number(readBigUInt64LE(buf, 8)),
          type |-> readUInt16LE(buf, 18),
          code |-> readUInt16LE(buf, 16),
          value |-> readInt32LE(buf, 20)]
    ELSE [timeSec |-> readUInt32LE(buf, 0),
          timeUsec |-> readUInt32LE(buf, 4),
          type |-> readUInt16LE(buf, 10),
          code |-> readUInt16LE(buf, 8),
          value |-> readInt32LE(buf, 12)]

parseEvent(eventSize, buf) ==
    IF eventSize = EVENT_SIZE_64
    THEN [timeSec |-> Number(readBigUInt64LE(buf, 0)),
          timeUsec |-> Number(readBigUInt64LE(buf, 8)),
          type |-> readUInt16LE(buf, 16),
          code |-> readUInt16LE(buf, 18),
          value |-> readInt32LE(buf, 20)]
    ELSE [timeSec |-> readUInt32LE(buf, 0),
          timeUsec |-> readUInt32LE(buf, 4),
          type |-> readUInt16LE(buf, 8),
          code |-> readUInt16LE(buf, 10),
          value |-> readInt32LE(buf, 12)]

\* Detection without the `inputMode === 'unknown'` guard.
detectMode_always(inputMode, raw) ==
    IF raw.type = EV_ABS /\ raw.value < 0 THEN "bluetooth"
    ELSE IF raw.type = EV_ABS /\ raw.value > 127 THEN "usb"
    ELSE IF raw.type = EV_KEY /\ raw.code >= 289 /\ raw.code <= 302 THEN "bluetooth"
    ELSE IF raw.type = EV_KEY /\ raw.code >= 305 /\ raw.code <= 317 THEN "usb"
    ELSE inputMode

\* Detection with `raw.value >= 127` for `raw.value > 127`.
detectMode_offByOne(inputMode, raw) ==
    IF inputMode # "unknown" THEN inputMode
    ELSE IF raw.type = EV_ABS /\ raw.value < 0 THEN "bluetooth"
    ELSE IF raw.type = EV_ABS /\ raw.value >= 127 THEN "usb"
    ELSE IF raw.type = EV_KEY /\ raw.code >= 289 /\ raw.code <= 302 THEN "bluetooth"
    ELSE IF raw.type = EV_KEY /\ raw.code >= 305 /\ raw.code <= 317 THEN "usb"
    ELSE inputMode

\* Detection that leaves the hat axes out of the negative-value test.
detectMode_skipHats(inputMode, raw) ==
    IF inputMode # "unknown" THEN inputMode
    ELSE IF raw.type = EV_ABS /\ raw.value < 0 /\ raw.code \notin DOMAIN DPAD_AXIS_MAP
         THEN "bluetooth"
    ELSE IF raw.type = EV_ABS /\ raw.value > 127 THEN "usb"
    ELSE IF raw.type = EV_KEY /\ raw.code >= 289 /\ raw.code <= 302 THEN "bluetooth"
    ELSE IF raw.type = EV_KEY /\ raw.code >= 305 /\ raw.code <= 317 THEN "usb"
    ELSE inputMode

\* Auto-detection of the input mode, evdev-reader.ts:176-190.
detectMode(inputMode, raw) ==
    IF inputMode # "unknown" THEN inputMode
    ELSE IF raw.type = EV_ABS /\ raw.value < 0 THEN "bluetooth"
    ELSE IF raw.type = EV_ABS /\ raw.value > 127 THEN "usb"
    ELSE IF raw.type = EV_KEY /\ raw.code >= 289 /\ raw.code <= 302 THEN "bluetooth"
    ELSE IF raw.type = EV_KEY /\ raw.code >= 305 /\ raw.code <= 317 THEN "usb"
    ELSE inputMode

\* The rescale with Math.floor for Math.round.
normalizeBluetooth_floor(value) ==
    LET q == (value + 127) \div 254
        m == (value + 127) % 254
    IN 255 * q + (255 * m) \div 254

\* Math.round(((value + 127) / 254) * 255): halves round towards +infinity.
\* With value + 127 = 254 * q + m the quotient contributes 255 * q exactly and
\* only the remainder is rounded, which keeps the intermediate products small.
normalizeBluetooth(value) ==
    LET q == (value + 127) \div 254
        m == (value + 127) % 254
    IN 255 * q + (2 * 255 * m + 254) \div (2 * 254)

clamp255(value) == IF value < 0 THEN 0 ELSE IF value > 255 THEN 255 ELSE value

\* The deadzone with exclusive bounds.
deadzone_exclusive(value) ==
    IF value > DEADZONE_MIN /\ value < DEADZONE_MAX THEN DEADZONE_CENTER ELSE value

deadzone(value) ==
    IF value >= DEADZONE_MIN /\ value <= DEADZONE_MAX THEN DEADZONE_CENTER ELSE value

Button(name, pressed) == NavEvt("button", name, pressed, 0)

\* this.emit('open'), this.emit('error', err), this.emit('close', reason).
ReaderEvt(kind, reason) == NavEvt(kind, reason, FALSE, 0)

\* handleDpadAxis pressing the new direction before releasing the old one.
handleDpadAxis_pressFirst(rd, raw) ==
    LET mapping == DPAD_AXIS_MAP[raw.code]
        prev == IF raw.code \in DOMAIN rd.dpadState THEN rd.dpadState[raw.code] ELSE 0
        rd1 == [rd EXCEPT !.dpadState = (raw.code :> raw.value) @@ @]
        release == IF prev < 0 THEN <<Button(mapping.neg, FALSE)>>
                   ELSE IF prev > 0 THEN <<Button(mapping.pos, FALSE)>>
                   ELSE <<>>
        press == IF raw.value < 0 THEN <<Button(mapping.neg, TRUE)>>
                 ELSE IF raw.value > 0 THEN <<Button(mapping.pos, TRUE)>>
                 ELSE <<>>
    IN [rd |-> rd1, events |-> press \o release]

\* handleDpadAxis releasing the previous direction only when the hat returns
\* to 0.
handleDpadAxis_flipKeeps(rd, raw) ==
    LET mapping == DPAD_AXIS_MAP[raw.code]
        prev == IF raw.code \in DOMAIN rd.dpadState THEN rd.dpadState[raw.code] ELSE 0
        rd1 == [rd EXCEPT !.dpadState = (raw.code :> raw.value) @@ @]
        release == IF raw.value # 0 THEN <<>>
                   ELSE IF prev < 0 THEN <<Button(mapping.neg, FALSE)>>
                   ELSE IF prev > 0 THEN <<Button(mapping.pos, FALSE)>>
                   ELSE <<>>
        press == IF raw.value < 0 THEN <<Button(mapping.neg, TRUE)>>
                 ELSE IF raw.value > 0 THEN <<Button(mapping.pos, TRUE)>>
                 ELSE <<>>
    IN [rd |-> rd1, events |-> release \o press]

\* handleDpadAxis: result is [rd |-> reader after, events |-> nav events emitted].
handleDpadAxis(rd, raw) ==
    LET mapping == DPAD_AXIS_MAP[raw.code]
        prev == IF raw.code \in DOMAIN rd.dpadState THEN rd.dpadState[raw.code] ELSE 0
        rd1 == [rd EXCEPT !.dpadState = (raw.code :> raw.value) @@ @]
        release == IF prev < 0 THEN <<Button(mapping.neg, FALSE)>>
                   ELSE IF prev > 0 THEN <<Button(mapping.pos, FALSE)>>
                   ELSE <<>>
        press == IF raw.value < 0 THEN <<Button(mapping.neg, TRUE)>>
                 ELSE IF raw.value > 0 THEN <<Button(mapping.pos, TRUE)>>
                 ELSE <<>>
    IN [rd |-> rd1, events |-> release \o press]

\* mapAxis without the `lastStickValue[axis] === clamped` suppression.
mapAxis_noDedupe(rd, raw) ==
    LET axis == AXIS_MAP[raw.code]
        value == clamp255(IF rd.inputMode = "bluetooth"
                          THEN normalizeBluetooth(raw.value) ELSE raw.value)
        clamped == deadzone(value)
    IN [rd |-> [rd EXCEPT !.lastStickValue = (axis :> clamped) @@ @],
        events |-> <<NavEvt("axis", axis, FALSE, clamped)>>]

\* mapAxis comparing with the center when the axis has no cached value
\* (`(lastStickValue[axis] ?? DEADZONE_CENTER) === clamped`).
mapAxis_defaultCenter(rd, raw) ==
    LET axis == AXIS_MAP[raw.code]
        value == clamp255(IF rd.inputMode = "bluetooth"
                          THEN normalizeBluetooth(raw.value) ELSE raw.value)
        clamped == deadzone(value)
        last == IF axis \in DOMAIN rd.lastStickValue
                THEN rd.lastStickValue[axis] ELSE DEADZONE_CENTER
    IN IF last = clamped
       THEN [rd |-> rd, events |-> <<>>]
       ELSE [rd |-> [rd EXCEPT !.lastStickValue = (axis :> clamped) @@ @],
             events |-> <<NavEvt("axis", axis, FALSE, clamped)>>]

mapAxis(rd, raw) ==
    LET axis == AXIS_MAP[raw.code]
        value == clamp255(IF rd.inputMode = "bluetooth"
                          THEN normalizeBluetooth(raw.value) ELSE raw.value)
        clamped == deadzone(value)
    IN IF axis \in DOMAIN rd.lastStickValue /\ rd.lastStickValue[axis] = clamped
       THEN [rd |-> rd, events |-> <<>>]
       ELSE [rd |-> [rd EXCEPT !.lastStickValue = (axis :> clamped) @@ @],
             events |-> <<NavEvt("axis", axis, FALSE, clamped)>>]

\* mapAndEmit resolving the ambiguous code as cross unless the mode is
\* bluetooth (`inputMode !== 'bluetooth'` for `inputMode === 'usb'`).
mapAndEmit_unknownAsUsb(rd, raw) ==
    IF raw.type = EV_SYN THEN [rd |-> rd, events |-> <<>>]
    ELSE
      LET rd1 == [rd EXCEPT !.inputMode = detectMode(rd.inputMode, raw)]
      IN IF raw.type = EV_KEY /\ raw.code = AMBIGUOUS_BTN_SOUTH
         THEN [rd |-> rd1,
               events |-> <<Button(IF rd1.inputMode # "bluetooth" THEN BTN_SOUTH_USB
                                   ELSE BTN_SOUTH_BT, raw.value # 0)>>]
         ELSE IF raw.type = EV_KEY /\ raw.code \in DOMAIN BUTTON_MAP
         THEN [rd |-> rd1, events |-> <<Button(BUTTON_MAP[raw.code], raw.value # 0)>>]
         ELSE IF raw.type = EV_ABS /\ raw.code \in DOMAIN DPAD_AXIS_MAP
         THEN handleDpadAxis(rd1, raw)
         ELSE IF raw.type = EV_ABS /\ raw.code \in DOMAIN AXIS_MAP
         THEN mapAxis(rd1, raw)
         ELSE [rd |-> rd1, events |-> <<>>]

\* mapAndEmit: result is [rd |-> reader after, events |-> nav events emitted].
mapAndEmit(rd, raw) ==
    IF raw.type = EV_SYN THEN [rd |-> rd, events |-> <<>>]
    ELSE
      LET rd1 == [rd EXCEPT !.inputMode = detectMode(rd.inputMode, raw)]
      IN IF raw.type = EV_KEY /\ raw.code = AMBIGUOUS_BTN_SOUTH
         THEN [rd |-> rd1,
               events |-> <<Button(IF rd1.inputMode = "usb" THEN BTN_SOUTH_USB
                                   ELSE BTN_SOUTH_BT, raw.value # 0)>>]
         ELSE IF raw.type = EV_KEY /\ raw.code \in DOMAIN BUTTON_MAP
         THEN [rd |-> rd1, events |-> <<Button(BUTTON_MAP[raw.code], raw.value # 0)>>]
         ELSE IF raw.type = EV_ABS /\ raw.code \in DOMAIN DPAD_AXIS_MAP
         THEN handleDpadAxis(rd1, raw)
         ELSE IF raw.type = EV_ABS /\ raw.code \in DOMAIN AXIS_MAP
         THEN mapAxis(rd1, raw)
         ELSE [rd |-> rd1, events |-> <<>>]

\* A reader with no handle, not reading and no callback outstanding is
\* unreachable from the event loop and is dropped from `readers`.
Collect(rds) ==
    [r \in {x \in DOMAIN rds :
              \/ rds[x].fd # "null"
              \/ rds[x].reading
              \/ rds[x].reads > 0
              \/ rds[x].immediates > 0}
        |-> rds[r]]

\* ───── frames read from the device ────────────────────────────────────────
\* Button frames: the ambiguous code, the USB PS code (release, press and
\* auto-repeat) and a USB-only code.
RouterFrames ==
    {Raw(EV_KEY, 304, v) : v \in {0, 1}} \cup
    {Raw(EV_KEY, 316, v) : v \in {0, 1, 2}} \cup
    {Raw(EV_KEY, 305, 1)}

\* Sync, ambiguous, mode-revealing and unmapped button frames, stick frames
\* below 0, in the deadzone and above 127, hat frames, an unmapped axis.
SessionFrames ==
    {Raw(EV_SYN, 0, 0), Raw(EV_KEY, 700, 1), Raw(EV_ABS, 40, -1)} \cup
    {Raw(EV_KEY, 304, v) : v \in {0, 1}} \cup
    {Raw(EV_KEY, 289, 1), Raw(EV_KEY, 305, 1)} \cup
    {Raw(EV_ABS, 0, v) : v \in {-1, 128, 200}} \cup
    {Raw(EV_ABS, 16, v) : v \in {-1, 1}}

\* The ambiguous code, one mode-revealing button code per mode, and axis
\* frames below 0 and above 127.
ReaderFrames ==
    {Raw(EV_KEY, 304, 1), Raw(EV_KEY, 289, 1), Raw(EV_KEY, 305, 1)} \cup
    {Raw(EV_ABS, 40, -1), Raw(EV_ABS, 40, 200)}

\* Button frames around both reserved code ranges (0x120..0x12f, 0x130,
\* 0x131..0x13e), press, release and repeat of the ambiguous code, a sync
\* frame, a frame of another type, an unmapped axis at the edges of 0..127,
\* both hat axes, and a stick frame whose value reveals no mode.
DecodeFrames ==
    {Raw(EV_SYN, 0, 0), Raw(4, 4, 200), Raw(EV_ABS, 0, 100)} \cup
    {Raw(EV_KEY, c, 1) : c \in {288, 289, 302, 303, 305, 317, 318}} \cup
    {Raw(EV_KEY, 304, v) : v \in {0, 1, 2}} \cup
    {Raw(EV_ABS, 40, v) : v \in {-1, 0, 127, 128}} \cup
    {Raw(EV_ABS, 16, v) : v \in {-1, 0, 1}} \cup
    {Raw(EV_ABS, 17, 1)}

\* Stick frames at the ends of the wireless range (-127, 0, 127), at both
\* edges of the deadzone in either dialect (-10, -9, 10, 11 and 117, 118,
\* 138, 139), at the ends of the wired range and beyond; a second axis, a
\* button and a hat to interleave.
AxisFrames ==
    {Raw(EV_ABS, 0, v) : v \in {-FarValue, -127, -10, -9, 0, 10, 11, 117, 118,
                                127, 128, 138, 139, 255, 256, FarValue}} \cup
    {Raw(EV_ABS, 2, 0), Raw(EV_KEY, 305, 1), Raw(EV_ABS, 16, 1)}

\* Frames as the kernel writes them.  Type, code and value: a sync frame, a
\* press of the ambiguous code, stick frames with -1 and 200, and two frames
\* whose fields use their high bytes, with the largest and the smallest
\* 32-bit value.
FrameTails ==
    {<<0, 0, 0, 0, 0, 0, 0, 0>>,
     <<1, 0, 48, 1, 1, 0, 0, 0>>,
     <<3, 0, 0, 0, 255, 255, 255, 255>>,
     <<3, 0, 0, 0, 200, 0, 0, 0>>,
     <<3, 0, 40, 0, 255, 255, 255, 127>>,
     <<0, 1, 255, 255, 0, 0, 0, 128>>}

\* Seconds and microseconds of the wide layout: zero, 123456789 s with
\* 999999 us, and 2^53 + 1 s.
WideTimes ==
    {<<0, 0, 0, 0, 0, 0, 0, 0, 0, 0, 0, 0, 0, 0, 0, 0>>,
     <<21, 205, 91, 7, 0, 0, 0, 0, 63, 66, 15, 0, 0, 0, 0, 0>>,
     <<1, 0, 0, 0, 0, 0, 32, 0, 0, 0, 0, 0, 0, 0, 0, 0>>}

\* Of the narrow layout: zero, 123456789 s with 999999 us, and the largest
\* 32-bit value.
NarrowTimes ==
    {<<0, 0, 0, 0, 0, 0, 0, 0>>,
     <<21, 205, 91, 7, 63, 66, 15, 0>>,
     <<255, 255, 255, 255, 0, 0, 0, 0>>}

\* Every tail under one time, and every time over one tail.
Buffers(eventSize) ==
    LET times == IF eventSize = EVENT_SIZE_64 THEN WideTimes ELSE NarrowTimes
        stamp == CHOOSE t \in times : \E i \in DOMAIN t : t[i] = 63
    IN {stamp \o tail : tail \in FrameTails} \cup
       {t \o <<3, 0, 0, 0, 255, 255, 255, 255>> : t \in times}

\* A sync frame, which is passed through raw and mapped to nothing, and a
\* button frame, which is passed through raw and routed.
RawFrames == {Raw(EV_SYN, 0, 0), Raw(EV_KEY, 305, 1)}

\* ───── history of cycleActiveClient calls ─────────────────────────────────
\* cycleRun.n counts the calls made on the present registry (modulo its
\* length); cycleRun.start is the socket that was active before the first.
NoRun == [n |-> 0, start |-> NoSocket]

ActiveId(clients, idx) ==
    IF idx >= 0 /\ idx < Len(clients) THEN clients[idx + 1].socketId ELSE NoSocket

RunAfter(run, st, events) ==
    IF \E i \in 1..Len(events) :
          events[i].kind = "button" /\ events[i].name = "ps" /\ events[i].pressed
    THEN IF Len(st.registeredClients) = 0 THEN NoRun
         ELSE [n |-> (run.n + 1) % Len(st.registeredClients),
               start |-> IF run.n = 0
                         THEN ActiveId(st.registeredClients, st.activeIndex)
                         ELSE run.start]
    ELSE run

\* ───── history of emitted axis events ─────────────────────────────────────
\* axisLog.live[r][axis] is the last axis event reader r emitted for the axis
\* (first: it was the first one of its session); axisLog.closed[axis] is the
\* last value emitted for the axis by a session that has ended.
NoLog == [live |-> <<>>, closed |-> <<>>]

LogOpen(log, r) == [log EXCEPT !.live = (r :> <<>>) @@ @]

RECURSIVE LogEmit(_, _, _)
LogEmit(log, r, events) ==
    IF events = <<>> THEN log
    ELSE LET e == Head(events)
             log1 == IF e.kind = "axis"
                     THEN [log EXCEPT !.live[r] =
                             (e.name :> [value |-> e.value,
                                         first |-> e.name \notin DOMAIN log.live[r]]) @@ @]
                     ELSE log
         IN LogEmit(log1, r, Tail(events))

\* The sessions that are no longer in rds have ended.
LogCollect(log, rds) ==
    LET gone == DOMAIN log.live \ DOMAIN rds
        ended == UNION {DOMAIN log.live[r] : r \in gone}
    IN [live |-> [r \in DOMAIN log.live \cap DOMAIN rds |-> log.live[r]],
        closed |-> [x \in ended |->
                       log.live[CHOOSE r \in gone : x \in DOMAIN log.live[r]][x].value]
                   @@ log.closed]

\* ───── history of hat button events ──────────────────────────────────────
\* dpadPressed[r] holds the D-pad buttons whose last event emitted for a hat
\* frame of reader r's session was a press; button frames do not count.
RECURSIVE PadFold(_, _)
PadFold(held, events) ==
    IF events = <<>> THEN held
    ELSE PadFold(IF Head(events).pressed
                 THEN held \cup {Head(events).name}
                 ELSE held \ {Head(events).name},
                 Tail(events))

PadEmit(log, r, raw, events) ==
    IF raw.type = EV_ABS /\ raw.code \in DOMAIN DPAD_AXIS_MAP /\ r \in DOMAIN log
    THEN [log EXCEPT ![r] = PadFold(@, events)]
    ELSE log

PadCollect(log, rds) == [r \in DOMAIN log \cap DOMAIN rds |-> log[r]]

\* ───── PSNavClient (psnav-client.ts) ───────────────────────────────────────
\* The 'client:activated' and 'client:deactivated' handlers of the client
\* behind each socket, run on the messages in the order they were emitted.
RECURSIVE Deliver(_, _)
Deliver(cl, msgs) ==
    IF msgs = <<>> THEN cl
    ELSE LET m == Head(msgs)
             cl1 == [s \in DOMAIN cl |->
                        IF s \in m.to /\ m.ev = "client:activated" THEN TRUE
                        ELSE IF s \in m.to /\ m.ev = "client:deactivated" THEN FALSE
                        ELSE cl[s]]
         IN Deliver(cl1, Tail(msgs))

\* ───── socket handlers (server.ts io.on('connection')) ────────────────────
\* A handler's effect: the router state it leaves and the messages it
\* emitted, which reach the clients of the connected sockets; a client
\* starts with isActive = false and its entry ends with its socket.
Commit(st) ==
    /\ sockets' = st.sockets
    /\ registeredClients' = st.registeredClients
    /\ activeIndex' = st.activeIndex
    /\ sent' = st.sent
    /\ navClients' = Deliver([s \in DOMAIN st.sockets |->
                                 IF s \in DOMAIN navClients THEN navClients[s]
                                 ELSE FALSE],
                             st.sent)

Connect(s) ==
    /\ s \notin DOMAIN sockets
    /\ LET st0 == [RouterState EXCEPT !.sockets =
                      (s :> [serviceName |-> Null, wantsRaw |-> FALSE]) @@ @]
           st1 == IF deviceConnected
                  THEN Emit(st0, Msg({s}, "nav:connected", Null, <<>>, -1, "", 0))
                  ELSE st0
       IN Commit(Emit(st1, ClientList({s}, getClientListInfo(st1))))
    /\ lastOp' = Op("connect", s, "", <<>>, -1, activeIndex)
    /\ UNCHANGED <<deviceConnected, readers, starting, timers, cycleRun, axisLog, dpadPressed>>

Register(s, name) ==
    /\ s \in DOMAIN sockets
    /\ Commit(registerClient(RouterState, s, name))
    /\ lastOp' = Op("register", s, name, <<>>, findIndex(registeredClients, s), activeIndex)
    /\ cycleRun' = NoRun
    /\ UNCHANGED <<deviceConnected, readers, starting, timers, axisLog, dpadPressed>>

SubscribeRaw(s, enabled) ==
    /\ s \in DOMAIN sockets
    /\ sockets' = [sockets EXCEPT ![s].wantsRaw = enabled]
    /\ sent' = <<>>
    /\ lastOp' = Op("subscribe:raw", s, "", <<>>, findIndex(registeredClients, s), activeIndex)
    /\ UNCHANGED <<registeredClients, activeIndex, deviceConnected, readers,
                   starting, timers, cycleRun, axisLog, dpadPressed, navClients>>

\* socket.io removes the socket from io.sockets.sockets before 'disconnect'.
Disconnect(s) ==
    /\ s \in DOMAIN sockets
    /\ LET st0 == [RouterState EXCEPT !.sockets =
                      [x \in DOMAIN sockets \ {s} |-> sockets[x]]]
       IN Commit(unregisterClient(st0, s))
    /\ lastOp' = Op("disconnect", s, "", <<>>, findIndex(registeredClients, s), activeIndex)
    /\ cycleRun' = IF findIndex(registeredClients, s) >= 0 THEN NoRun ELSE cycleRun
    /\ UNCHANGED <<deviceConnected, readers, starting, timers, axisLog, dpadPressed>>

\* ───── device handlers (server.ts startEvdevReader, evdev-reader.ts) ──────
Disconnected(st, reason) ==
    Emit(st, Msg(DOMAIN st.sockets, "nav:disconnected", reason, <<>>, -1, "", 0))

\* reader.on('close') without the setTimeout.
onClose_noRetry(reason) ==
    /\ deviceConnected' = FALSE
    /\ Commit(Disconnected(RouterState, reason))
    /\ timers' = timers

\* reader.on('close'): broadcast, and setTimeout(startEvdevReader, 3000).
onClose(reason) ==
    /\ deviceConnected' = FALSE
    /\ Commit(Disconnected(RouterState, reason))
    /\ timers' = timers + 1

TimerFire ==
    /\ timers > 0
    /\ timers' = timers - 1
    /\ starting' = starting + 1
    /\ sent' = <<>>
    /\ lastOp' = Op("timer", NoSocket, "", <<>>, -1, activeIndex)
    /\ UNCHANGED <<sockets, registeredClients, activeIndex, deviceConnected,
                   readers, cycleRun, axisLog, dpadPressed, navClients>>

FreeReader == CHOOSE r \in 1..MaxReaders : r \notin DOMAIN readers

\* startEvdevReader after findControllerDevice() resolved: new EvdevReader,
\* its listeners, reader.start() with fs.openSync succeeding.
StartOpen ==
    /\ starting > 0
    /\ \E r \in 1..MaxReaders : r \notin DOMAIN readers
    /\ starting' = starting - 1
    /\ readers' = (FreeReader :> [NewReader EXCEPT !.fd = "open", !.reading = TRUE,
                                                   !.reads = 1]) @@ readers
    /\ deviceConnected' = TRUE
    /\ Commit(Emit(RouterState,
                   Msg(DOMAIN sockets, "nav:connected", Null, <<>>, -1, "", 0)))
    /\ lastOp' = Op("open", FreeReader, "", <<ReaderEvt("open", "")>>, -1, activeIndex)
    /\ axisLog' = LogOpen(axisLog, FreeReader)
    /\ dpadPressed' = (FreeReader :> {}) @@ dpadPressed
    /\ UNCHANGED <<timers, cycleRun>>

\* The same with fs.openSync throwing: 'error' is logged, 'close' is emitted.
StartFail ==
    /\ starting > 0
    /\ starting' = starting - 1
    /\ onClose("Cannot open")
    /\ lastOp' = Op("openfail", NoSocket, "",
                    <<ReaderEvt("error", "Cannot open"), ReaderEvt("close", "Cannot open")>>,
                    -1, activeIndex)
    /\ UNCHANGED <<readers, cycleRun, axisLog, dpadPressed>>

\* The callback calling this.readLoop() itself and scheduling it as well.
ReadFrame_twice(r, raw) ==
    /\ r \in DOMAIN readers
    /\ readers[r].reads > 0
    /\ LET res == mapAndEmit(readers[r], raw)
           st == onNavAll(onRaw(RouterState, raw), res.events)
       IN /\ Commit(st)
          /\ readers' = [readers EXCEPT ![r] =
                            [res.rd EXCEPT !.immediates = @ + 1]]
          /\ lastOp' = Op("read", r, "", res.events, -1, activeIndex)
          /\ cycleRun' = RunAfter(cycleRun, RouterState, res.events)
          /\ axisLog' = LogEmit(axisLog, r, res.events)
          /\ dpadPressed' = PadEmit(dpadPressed, r, raw, res.events)
    /\ UNCHANGED <<deviceConnected, starting, timers>>

\* fs.read callback with bytesRead === eventSize.
ReadFrame(r, raw) ==
    /\ r \in DOMAIN readers
    /\ readers[r].reads > 0
    /\ LET res == mapAndEmit(readers[r], raw)
           st == onNavAll(onRaw(RouterState, raw), res.events)
       IN /\ Commit(st)
          /\ readers' = [readers EXCEPT ![r] =
                            [res.rd EXCEPT !.reads = @ - 1, !.immediates = @ + 1]]
          /\ lastOp' = Op("read", r, "", res.events, -1, activeIndex)
          /\ cycleRun' = RunAfter(cycleRun, RouterState, res.events)
          /\ axisLog' = LogEmit(axisLog, r, res.events)
          /\ dpadPressed' = PadEmit(dpadPressed, r, raw, res.events)
    /\ UNCHANGED <<deviceConnected, starting, timers>>

\* fs.read callback with bytesRead === eventSize on a reader constructed with
\* is32bit, the frame given as the bytes fs.read left in this.buf.
ReadBuffer(r, is32bit, bytes) ==
    /\ r \in DOMAIN readers
    /\ readers[r].reads > 0
    /\ Len(bytes) = EventSize(is32bit)
    /\ LET raw == parseEvent(EventSize(is32bit), bytes)
           res == mapAndEmit(readers[r], raw)
           st == onNavAll(onRaw(RouterState, raw), res.events)
       IN /\ Commit(st)
          /\ readers' = [readers EXCEPT ![r] =
                            [res.rd EXCEPT !.reads = @ - 1, !.immediates = @ + 1,
                                           !.buf = bytes]]
          /\ lastOp' = Op("read", r, "", res.events, -1, activeIndex)
          /\ cycleRun' = RunAfter(cycleRun, RouterState, res.events)
          /\ axisLog' = LogEmit(axisLog, r, res.events)
          /\ dpadPressed' = PadEmit(dpadPressed, r, raw, res.events)
    /\ UNCHANGED <<deviceConnected, starting, timers>>

\* The callback with the setImmediate inside the `bytesRead === eventSize`
\* block: a short read schedules nothing.
ReadShort_stall(r) ==
    /\ r \in DOMAIN readers
    /\ readers[r].reads > 0
    /\ readers' = [readers EXCEPT ![r].reads = @ - 1]
    /\ sent' = <<>>
    /\ lastOp' = Op("short", r, "", <<>>, -1, activeIndex)
    /\ UNCHANGED <<sockets, registeredClients, activeIndex, deviceConnected,
                   starting, timers, cycleRun, axisLog, dpadPressed, navClients>>

\* fs.read callback with bytesRead # eventSize.
ReadShort(r) ==
    /\ r \in DOMAIN readers
    /\ readers[r].reads > 0
    /\ readers' = [readers EXCEPT ![r].reads = @ - 1, ![r].immediates = @ + 1]
    /\ sent' = <<>>
    /\ lastOp' = Op("short", r, "", <<>>, -1, activeIndex)
    /\ UNCHANGED <<sockets, registeredClients, activeIndex, deviceConnected,
                   starting, timers, cycleRun, axisLog, dpadPressed, navClients>>

\* The err branch without fs.closeSync: the handle stays open.
ReadError_leak(r) ==
    /\ r \in DOMAIN readers
    /\ readers[r].reads > 0
    /\ readers' = Collect([readers EXCEPT ![r].reads = @ - 1, ![r].reading = FALSE])
    /\ IF readers[r].reading
       THEN onClose("read error")
       ELSE /\ sent' = <<>>
            /\ UNCHANGED <<sockets, registeredClients, activeIndex,
                           deviceConnected, timers, navClients>>
    /\ lastOp' = Op("readerror", r, "",
                    IF readers[r].reading
                    THEN <<ReaderEvt("error", "read error"), ReaderEvt("close", "read error")>>
                    ELSE <<>>,
                    -1, activeIndex)
    /\ axisLog' = LogCollect(axisLog, readers')
    /\ dpadPressed' = PadCollect(dpadPressed, readers')
    /\ UNCHANGED <<starting, cycleRun>>

\* The err branch without the `if (this.reading)` guard: a read that fails
\* after stop() reports error and close again.
ReadError_unguarded(r) ==
    /\ r \in DOMAIN readers
    /\ readers[r].reads > 0
    /\ readers' = Collect([readers EXCEPT ![r].reads = @ - 1, ![r].reading = FALSE,
                                          ![r].fd = "null"])
    /\ onClose("read error")
    /\ lastOp' = Op("readerror", r, "",
                    <<ReaderEvt("error", "read error"), ReaderEvt("close", "read error")>>,
                    -1, activeIndex)
    /\ axisLog' = LogCollect(axisLog, readers')
    /\ dpadPressed' = PadCollect(dpadPressed, readers')
    /\ UNCHANGED <<starting, cycleRun>>

\* fs.read callback with err.
ReadError(r) ==
    /\ r \in DOMAIN readers
    /\ readers[r].reads > 0
    /\ readers' = Collect([readers EXCEPT ![r].reads = @ - 1, ![r].reading = FALSE,
                                          ![r].fd = "null"])
    /\ IF readers[r].reading
       THEN onClose("read error")
       ELSE /\ sent' = <<>>
            /\ UNCHANGED <<sockets, registeredClients, activeIndex,
                           deviceConnected, timers, navClients>>
    /\ lastOp' = Op("readerror", r, "",
                    IF readers[r].reading
                    THEN <<ReaderEvt("error", "read error"), ReaderEvt("close", "read error")>>
                    ELSE <<>>,
                    -1, activeIndex)
    /\ axisLog' = LogCollect(axisLog, readers')
    /\ dpadPressed' = PadCollect(dpadPressed, readers')
    /\ UNCHANGED <<starting, cycleRun>>

\* setImmediate(() => this.readLoop()).
ReadLoop(r) ==
    /\ r \in DOMAIN readers
    /\ readers[r].immediates > 0
    /\ readers' = Collect([readers EXCEPT
            ![r].immediates = @ - 1,
            ![r].reads = IF readers[r].reading /\ readers[r].fd # "null"
                         THEN @ + 1 ELSE @])
    /\ sent' = <<>>
    /\ lastOp' = Op("readloop", r, "", <<>>, -1, activeIndex)
    /\ axisLog' = LogCollect(axisLog, readers')
    /\ dpadPressed' = PadCollect(dpadPressed, readers')
    /\ UNCHANGED <<sockets, registeredClients, activeIndex, deviceConnected,
                   starting, timers, cycleRun, navClients>>

\* EvdevReader.stop(), called on a reader whose session is open.
Stop(r) ==
    /\ r \in DOMAIN readers
    /\ readers[r].reading
    /\ readers' = Collect([readers EXCEPT ![r].reading = FALSE, ![r].fd = "null"])
    /\ onClose("stopped")
    /\ lastOp' = Op("stop", r, "", <<ReaderEvt("close", "stopped")>>, -1, activeIndex)
    /\ axisLog' = LogCollect(axisLog, readers')
    /\ dpadPressed' = PadCollect(dpadPressed, readers')
    /\ UNCHANGED <<starting, cycleRun>>

\* ───── specifications ──────────────────────────────────────────────────────
Init ==
    /\ sockets = <<>>
    /\ registeredClients = <<>>
    /\ activeIndex = -1
    /\ deviceConnected = FALSE
    /\ readers = <<>>
    /\ starting = 1
    /\ timers = 0
    /\ sent = <<>>
    /\ lastOp = Op("listen", NoSocket, "", <<>>, -1, -1)
    /\ cycleRun = NoRun
    /\ axisLog = NoLog
    /\ dpadPressed = <<>>
    /\ navClients = <<>>

\* The server as it runs: nothing in it calls EvdevReader.stop().
Next ==
    \/ \E s \in 1..MaxSockets : Connect(s)
    \/ \E s \in 1..MaxSockets, name \in Names : Register(s, name)
    \/ \E s \in 1..MaxSockets : Disconnect(s)
    \/ TimerFire
    \/ StartOpen
    \/ StartFail
    \/ \E r \in 1..MaxReaders, raw \in RouterFrames : ReadFrame(r, raw)
    \/ \E r \in 1..MaxReaders : ReadShort(r)
    \/ \E r \in 1..MaxReaders : ReadError(r)
    \/ \E r \in 1..MaxReaders : ReadLoop(r)

Spec == Init /\ [][Next]_vars

\* The server as it runs, with one consumer and every kind of frame.
NextSession ==
    \/ \E s \in 1..MaxReaderSockets : Connect(s)
    \/ \E s \in 1..MaxReaderSockets, name \in Names : Register(s, name)
    \/ \E s \in 1..MaxReaderSockets : Disconnect(s)
    \/ TimerFire
    \/ StartOpen
    \/ StartFail
    \/ \E r \in 1..MaxReaders, raw \in SessionFrames : ReadFrame(r, raw)
    \/ \E r \in 1..MaxReaders : ReadShort(r)
    \/ \E r \in 1..MaxReaders : ReadError(r)
    \/ \E r \in 1..MaxReaders : ReadLoop(r)

SpecSession == Init /\ [][NextSession]_vars

\* The reader with its whole API exercised: stop() may be called on the
\* open session at any moment; consumers only observe.
NextReader ==
    \/ \E s \in 1..MaxReaderSockets : Connect(s)
    \/ \E s \in 1..MaxReaderSockets : Disconnect(s)
    \/ TimerFire
    \/ StartOpen
    \/ StartFail
    \/ \E r \in 1..MaxReaders, raw \in ReaderFrames : ReadFrame(r, raw)
    \/ \E r \in 1..MaxReaders : ReadShort(r)
    \/ \E r \in 1..MaxReaders : ReadError(r)
    \/ \E r \in 1..MaxReaders : ReadLoop(r)
    \/ \E r \in 1..MaxReaders : Stop(r)

SpecReader == Init /\ [][NextReader]_vars

\* The same under the scheduling of the event loop: a pending timer fires,
\* and a startEvdevReader() call that was made gets past its await and runs
\* reader.start().
SpecRetry ==
    /\ Init
    /\ [][NextReader]_vars
    /\ WF_vars(TimerFire)
    /\ WF_vars(StartOpen \/ StartFail)

\* The reader with no consumer connected, decoding button, hat and
\* mode-revealing frames.
NextDecode ==
    \/ TimerFire
    \/ StartOpen
    \/ StartFail
    \/ \E r \in 1..MaxReaders, raw \in DecodeFrames : ReadFrame(r, raw)
    \/ \E r \in 1..MaxReaders : ReadShort(r)
    \/ \E r \in 1..MaxReaders : ReadError(r)
    \/ \E r \in 1..MaxReaders : ReadLoop(r)

SpecDecode == Init /\ [][NextDecode]_vars

\* The reader with no consumer connected, decoding stick frames.
NextAxis ==
    \/ TimerFire
    \/ StartOpen
    \/ StartFail
    \/ \E r \in 1..MaxReaders, raw \in AxisFrames : ReadFrame(r, raw)
    \/ \E r \in 1..MaxReaders : ReadShort(r)
    \/ \E r \in 1..MaxReaders : ReadError(r)
    \/ \E r \in 1..MaxReaders : ReadLoop(r)

SpecAxis == Init /\ [][NextAxis]_vars

\* The reader with no consumer connected, reading frames as bytes in either
\* layout.
NextParse ==
    \/ TimerFire
    \/ StartOpen
    \/ StartFail
    \/ \E r \in 1..MaxReaders, is32bit \in BOOLEAN :
          \E bytes \in Buffers(EventSize(is32bit)) : ReadBuffer(r, is32bit, bytes)
    \/ \E r \in 1..MaxReaders : ReadShort(r)
    \/ \E r \in 1..MaxReaders : ReadError(r)
    \/ \E r \in 1..MaxReaders : ReadLoop(r)

SpecParse == Init /\ [][NextParse]_vars

\* The server with consumers that turn the raw passthrough on and off.
NextRaw ==
    \/ \E s \in 1..MaxSockets : Connect(s)
    \/ \E s \in 1..MaxSockets : Register(s, "A")
    \/ \E s \in 1..MaxSockets, enabled \in BOOLEAN : SubscribeRaw(s, enabled)
    \/ \E s \in 1..MaxSockets : Disconnect(s)
    \/ TimerFire
    \/ StartOpen
    \/ StartFail
    \/ \E r \in 1..MaxReaders, raw \in RawFrames : ReadFrame(r, raw)
    \/ \E r \in 1..MaxReaders : ReadShort(r)
    \/ \E r \in 1..MaxReaders : ReadError(r)
    \/ \E r \in 1..MaxReaders : ReadLoop(r)

SpecRaw == Init /\ [][NextRaw]_vars

\* ───── properties ──────────────────────────────────────────────────────────
Ids(clients) == [i \in 1..Len(clients) |-> clients[i].socketId]

Registered(s) == findIndex(registeredClients, s) >= 0

\* Positions in `msgs` of the messages of kind ev.
Of(msgs, ev) == {i \in 1..Len(msgs) : msgs[i].ev = ev}

PsPressed(events) ==
    \E i \in 1..Len(events) :
        events[i].kind = "button" /\ events[i].name = "ps" /\ events[i].pressed

RemoveAt(seq, i) == SubSeq(seq, 1, i - 1) \o SubSeq(seq, i + 1, Len(seq))

\* C1: after any sequence of register, unregister (disconnect) and
\* cycleActive, activeIndex lies in [-1, len-1], so at most one registry
\* entry is the active one.
C1_ActiveIndexInRange ==
    /\ activeIndex \in -1..(Len(registeredClients) - 1)
    /\ Cardinality({i \in 1..Len(registeredClients) : i - 1 = activeIndex}) <= 1

\* An unregister that found index 1 active (so a cycle came before it) and
\* left a non-empty registry.
C1_Witness ==
    /\ lastOp.op = "disconnect"
    /\ lastOp.idx >= 0
    /\ lastOp.prev = 1
    /\ Len(registeredClients) >= 1

\* The sockets emitNavEvent delivers a semantic event to in the present state.
DeliveryTargets ==
    LET out == emitNavEvent(RouterState, "nav:button", "cross", 1).sent
    IN UNION {out[i].to : i \in 1..Len(out)}

\* C2: every connected consumer that never registered is a delivery target
\* of a routed event, and no registered consumer other than the active one
\* is, whatever name it registered with (the empty string included).
C2_TargetsAreObserversAndActive ==
    \A s \in DOMAIN sockets :
        /\ ~Registered(s) => s \in DeliveryTargets
        /\ (Registered(s) /\ findIndex(registeredClients, s) # activeIndex)
              => s \notin DeliveryTargets

\* C3: no button event for ps, pressed or released, is delivered to any
\* consumer.
C3_PsNeverForwarded ==
    \A i \in 1..Len(sent) : ~(sent[i].ev = "nav:button" /\ sent[i].key = "ps")

\* C4: within one device session the mode starts unknown and, once it is usb
\* or bluetooth, no later frame of that session changes it.
C4_ModeFrozen ==
    [][\A r \in DOMAIN readers' :
          IF r \in DOMAIN readers
          THEN readers[r].inputMode # "unknown"
                  => readers'[r].inputMode = readers[r].inputMode
          ELSE readers'[r].inputMode = "unknown"]_vars

\* A session in bluetooth mode that has since decoded the stick frame with
\* value 200 (above 127), emitted as 255 after rescaling.
C4_Witness ==
    \E r \in DOMAIN readers :
        /\ readers[r].inputMode = "bluetooth"
        /\ "stick_x" \in DOMAIN readers[r].lastStickValue
        /\ readers[r].lastStickValue["stick_x"] = 255

\* C5: an explicit stop of an open session reaches Closed without a
\* reconnect being scheduled.
C5_StopSchedulesNoReconnect ==
    lastOp.op = "stop" => timers = 0 /\ starting = 0

\* C6: when unregister removes the active entry, the entry that followed it
\* (the entry at index 0 when it was last) becomes active and is the one
\* consumer sent `activated`; when the registry becomes empty activeIndex is
\* -1 and no `activated` is sent.  Removing index 0 leaves activeIndex = 0.
C6_UnregisterActive ==
    [][(lastOp'.op = "disconnect" /\ lastOp'.idx >= 0 /\ lastOp'.idx = activeIndex) =>
        LET n == Len(registeredClients)
            idx == lastOp'.idx
            follower == IF idx + 1 < n THEN registeredClients[idx + 2]
                        ELSE registeredClients[1]
            acts == Of(sent', "client:activated")
        IN IF n = 1
           THEN activeIndex' = -1 /\ registeredClients' = <<>> /\ acts = {}
           ELSE /\ ActiveId(registeredClients', activeIndex') = follower.socketId
                /\ idx = 0 => activeIndex' = 0
                /\ \E i \in acts :
                      /\ acts = {i}
                      /\ sent'[i] = Activated(follower.socketId, follower.serviceName)
      ]_vars

\* The active entry was removed and another entry took over.
C6_Witness ==
    /\ lastOp.op = "disconnect"
    /\ lastOp.idx >= 0
    /\ lastOp.idx = lastOp.prev
    /\ Len(registeredClients) >= 1
    /\ Of(sent, "client:activated") # {}

\* C7: unregistering a registered consumer that is not the active one leaves
\* the same consumer active (activeIndex decremented exactly when the
\* removed entry preceded it) and sends no activated or deactivated.
C7_UnregisterInactive ==
    [][(lastOp'.op = "disconnect" /\ lastOp'.idx >= 0 /\ lastOp'.idx # activeIndex) =>
        /\ ActiveId(registeredClients', activeIndex')
              = ActiveId(registeredClients, activeIndex)
        /\ ActiveId(registeredClients', activeIndex') # NoSocket
        /\ activeIndex' = IF lastOp'.idx < activeIndex
                          THEN activeIndex - 1 ELSE activeIndex
        /\ Of(sent', "client:activated") = {}
        /\ Of(sent', "client:deactivated") = {}
      ]_vars

\* An inactive entry ahead of the active one was removed.
C7_Witness ==
    /\ lastOp.op = "disconnect"
    /\ lastOp.idx >= 0
    /\ lastOp.idx < lastOp.prev
    /\ activeIndex = lastOp.prev - 1

\* C8: the registry never holds two entries of one consumer and keeps the
\* order of first registration: a step leaves the ids as they are, appends
\* a new id or removes one; register by a registered consumer replaces that
\* entry's name in place, with length and activeIndex unchanged.
C8_RegistryOrder ==
    [][/\ \A i, j \in 1..Len(registeredClients') :
              i # j => registeredClients'[i].socketId # registeredClients'[j].socketId
       /\ LET ids == Ids(registeredClients)
              ids2 == Ids(registeredClients')
          IN \/ ids2 = ids
             \/ \E s \in DOMAIN sockets' :
                   /\ \A i \in 1..Len(ids) : ids[i] # s
                   /\ ids2 = Append(ids, s)
             \/ \E i \in 1..Len(ids) : ids2 = RemoveAt(ids, i)
       /\ (lastOp'.op = "register" /\ lastOp'.idx >= 0) =>
              /\ registeredClients' = [registeredClients EXCEPT
                                          ![lastOp'.idx + 1].serviceName = lastOp'.name]
              /\ activeIndex' = activeIndex
      ]_vars

\* The second of two entries registered again, under the name it now has.
C8_Witness ==
    /\ lastOp.op = "register"
    /\ lastOp.idx = 1
    /\ Len(registeredClients) = 2
    /\ registeredClients[2].serviceName = lastOp.name
    /\ registeredClients[1].serviceName # lastOp.name

\* C9: register on an empty registry makes the consumer active at index 0
\* and sends it `activated`; register by a new consumer on a non-empty
\* registry appends it, leaves activeIndex alone and sends no `activated`.
C9_Register ==
    [][(lastOp'.op = "register" /\ lastOp'.idx < 0) =>
        LET s == lastOp'.sock
            name == lastOp'.name
            acts == Of(sent', "client:activated")
        IN /\ registeredClients' =
                Append(registeredClients, [socketId |-> s, serviceName |-> name])
           /\ IF Len(registeredClients) = 0
              THEN /\ activeIndex' = 0
                   /\ \E i \in acts : acts = {i} /\ sent'[i] = Activated(s, name)
              ELSE /\ activeIndex' = activeIndex
                   /\ acts = {}
      ]_vars

\* A second consumer registered; the first one stayed active.
C9_Witness ==
    /\ lastOp.op = "register"
    /\ lastOp.idx < 0
    /\ Len(registeredClients) = 2
    /\ lastOp.prev = 0
    /\ activeIndex = 0
    /\ registeredClients[2].socketId = lastOp.sock

\* C10: cycleActive does nothing on an empty registry; on n >= 1 entries it
\* sets activeIndex to (activeIndex + 1) mod n and sends exactly deactivated
\* (to the consumer that was active), activated (to the one that is now)
\* and the snapshot, in that order; with two entries the active consumer
\* changes on every call, and n calls in a row on an unchanged registry
\* return to the consumer that was active before the first.
C10_CycleActive ==
    [][(lastOp'.op = "read" /\ PsPressed(lastOp'.nav)) =>
        LET n == Len(registeredClients)
            old == ActiveId(registeredClients, activeIndex)
            new == ActiveId(registeredClients', activeIndex')
            router == SelectSeq(sent', LAMBDA m : m.ev # "nav:raw")
        IN /\ registeredClients' = registeredClients
           /\ IF n = 0
              THEN activeIndex' = activeIndex /\ router = <<>>
              ELSE /\ activeIndex' = (activeIndex + 1) % n
                   /\ router =
                        <<Deactivated(old, registeredClients[activeIndex + 1].serviceName),
                          Activated(new, registeredClients[activeIndex' + 1].serviceName),
                          ClientList(DOMAIN sockets,
                                     [clients |-> registeredClients,
                                      activeIndex |-> activeIndex',
                                      activeServiceName |->
                                        registeredClients[activeIndex' + 1].serviceName])>>
                   /\ n = 2 => new # old
                   /\ cycleRun'.n = 0 => new = cycleRun'.start
      ]_vars

\* The second of two calls in a row on a two-entry registry: the index
\* wrapped from 1 to 0.
C10_Witness ==
    /\ lastOp.op = "read"
    /\ PsPressed(lastOp.nav)
    /\ Len(registeredClients) = 2
    /\ lastOp.prev = 1
    /\ activeIndex = 0
    /\ cycleRun.n = 0

\* A reader as reader.start() leaves it: no frame decoded yet.
Fresh(rd) ==
    /\ rd.inputMode = "unknown"
    /\ rd.dpadState = <<>>
    /\ rd.lastStickValue = <<>>

\* Exactly one consumer is connected, and it is registered (hence active).
OneActiveConsumer ==
    /\ Len(registeredClients) = 1
    /\ DOMAIN sockets = {registeredClients[1].socketId}
    /\ activeIndex = 0

\* The step delivered the button event (name, v) to the active consumer, to
\* nobody else, delivered nothing else, and left the registry as it was.
DeliversOnly(name, v) ==
    /\ sent' # <<>>
    /\ \A i \in 1..Len(sent') :
          sent'[i] = Msg({registeredClients[1].socketId}, "nav:button", Null,
                         <<>>, -1, name, v)
    /\ registeredClients' = registeredClients
    /\ activeIndex' = activeIndex

C12_AmbiguousCode ==
    [][\A r \in DOMAIN readers, raw \in DecodeFrames :
          (raw.type = 1 /\ raw.code = 304 /\ ReadFrame(r, raw)) =>
            LET mode == readers[r].inputMode
                name == CASE mode = "usb" -> "cross"
                          [] mode = "bluetooth" -> "ps"
                          [] mode = "unknown" -> "ps"
            IN /\ lastOp'.nav = <<NavEvt("button", name, raw.value # 0, 0)>>
               /\ readers'[r].inputMode = mode]_vars

\* The ambiguous code was decoded as ps pressed in a session whose mode is
\* still unknown.
C12_Witness ==
    /\ lastOp.op = "read"
    /\ lastOp.nav = <<Button("ps", TRUE)>>
    /\ lastOp.sock \in DOMAIN readers
    /\ readers[lastOp.sock].inputMode = "unknown"

\* The mode the claim gives a frame read while the mode is unknown.
C13_Expected(raw) ==
    CASE raw.type = 3 /\ raw.value < 0 -> "bluetooth"
      [] raw.type = 3 /\ raw.value > 127 -> "usb"
      [] raw.type = 1 /\ raw.code \in 289..302 -> "bluetooth"
      [] raw.type = 1 /\ raw.code \in 305..317 -> "usb"
      [] OTHER -> "unknown"

\* C13: while the mode is unknown a frame sets it exactly so: axis frame
\* with a negative value -> bluetooth, axis frame with a value above 127 ->
\* usb, button frame with code 0x121..0x12e -> bluetooth, button frame with
\* code 0x131..0x13d -> usb; every other frame (sync frames, axis frames
\* with a value in 0..127, other codes and types) leaves it unknown.
C13_ModeDetection ==
    [][\A r \in DOMAIN readers, raw \in DecodeFrames :
          (readers[r].inputMode = "unknown" /\ ReadFrame(r, raw)) =>
              readers'[r].inputMode = C13_Expected(raw)]_vars

\* The button frame with code 0x12e, the last of the bluetooth range, was
\* decoded (as cross) in a session that is in bluetooth mode.
C13_Witness ==
    /\ lastOp.op = "read"
    /\ lastOp.nav = <<Button("cross", TRUE)>>
    /\ lastOp.sock \in DOMAIN readers
    /\ readers[lastOp.sock].inputMode = "bluetooth"
    /\ readers[lastOp.sock].dpadState = <<>>

\* Positions in `events` of the axis events.
AxisEvents(events) == {i \in 1..Len(events) : events[i].kind = "axis"}

\* C14: within one session, an axis event emitted for an axis never carries
\* the value of the axis event emitted before it for the same axis,
\* whatever frames of other axes, buttons and hats came in between.
C14_NoRepeatedAxisValue ==
    [][lastOp'.op = "read" =>
        \A i \in AxisEvents(lastOp'.nav) :
            LET e == lastOp'.nav[i]
                r == lastOp'.sock
            IN (r \in DOMAIN axisLog.live /\ e.name \in DOMAIN axisLog.live[r])
                  => e.value # axisLog.live[r][e.name].value]_vars

\* A stick frame was suppressed as a repeat after the session had emitted
\* two or more stick_x events and none for the other axis.
C14_Witness ==
    /\ lastOp.op = "read"
    /\ lastOp.nav = <<>>
    /\ lastOp.sock \in DOMAIN axisLog.live
    /\ DOMAIN axisLog.live[lastOp.sock] = {"stick_x"}
    /\ ~axisLog.live[lastOp.sock]["stick_x"].first

\* round(((r + 127) / 254) * 255) with halves rounded up, for r in the
\* native wireless range: the integer n with n - 1/2 <= 255(r+127)/254 < n + 1/2.
Rescaled(r) ==
    CHOOSE n \in 0..255 :
        /\ 508 * n - 254 <= 510 * (r + 127)
        /\ 510 * (r + 127) < 508 * n + 254

\* The normalized value clamped to 0..255: the raw value unless the mode is
\* bluetooth, the rescaled value when it is (the rescale is monotonic, -127
\* gives 0 and 127 gives 255).
Normalized(mode, r) ==
    IF mode = "bluetooth"
    THEN IF r <= -127 THEN 0 ELSE IF r >= 127 THEN 255 ELSE Rescaled(r)
    ELSE IF r < 0 THEN 0 ELSE IF r > 255 THEN 255 ELSE r

MappedAxisFrame(raw) == raw.type = 3 /\ raw.code \in {0, 1, 2}

\* C15: a mapped axis frame whose normalized value lies in 118..138 is
\* emitted, if at all, with the value 128, and no emitted axis event
\* carries a value of 118..138 other than 128.
C15_Deadzone ==
    [][\A i \in AxisEvents(lastOp'.nav) :
          \A r \in DOMAIN readers, raw \in AxisFrames :
            (MappedAxisFrame(raw) /\ ReadFrame(r, raw)) =>
               /\ Normalized(readers'[r].inputMode, raw.value) \in 118..138
                     => lastOp'.nav[i].value = 128
               /\ lastOp'.nav[i].value \in 118..138
                     => lastOp'.nav[i].value = 128]_vars

\* A bluetooth session emitted 128 for the stick right after emitting
\* another value: the frame was one of -9, 0, 10, rescaled to 118, 128, 138.
C15_Witness ==
    /\ lastOp.op = "read"
    /\ lastOp.nav = <<NavEvt("axis", "stick_x", FALSE, 128)>>
    /\ lastOp.sock \in DOMAIN readers
    /\ readers[lastOp.sock].inputMode = "bluetooth"
    /\ ~axisLog.live[lastOp.sock]["stick_x"].first

\* C16: in bluetooth mode the raw value r is emitted as
\* round(((r+127)/254)*255), halves rounded up (-127 -> 0, 0 -> 128,
\* 127 -> 255), in usb mode as r itself, in both clamped to 0..255 before
\* the deadzone; every emitted axis value is an integer in 0..255.
C16_Normalization ==
    [][\A i \in AxisEvents(lastOp'.nav) :
          \A r \in DOMAIN readers, raw \in AxisFrames :
            (MappedAxisFrame(raw) /\ ReadFrame(r, raw)) =>
               LET e == lastOp'.nav[i]
                   mode == readers'[r].inputMode
                   n == Normalized(mode, raw.value)
               IN /\ e.value \in 0..255
                  /\ mode \in {"usb", "bluetooth"} =>
                        e.value = IF n \in 118..138 THEN 128 ELSE n
                  /\ (mode = "bluetooth" /\ raw.value = -127) => e.value = 0
                  /\ (mode = "bluetooth" /\ raw.value = 0) => e.value = 128
                  /\ (mode = "bluetooth" /\ raw.value = 127) => e.value = 255
                  /\ (mode = "usb" /\ raw.value \in 0..255 \ 118..138)
                        => e.value = raw.value]_vars

\* A bluetooth session emitted 245 for the stick: the frame carried 117,
\* rescaled from 244.96.
C16_Witness ==
    /\ lastOp.op = "read"
    /\ lastOp.nav = <<NavEvt("axis", "stick_x", FALSE, 245)>>
    /\ lastOp.sock \in DOMAIN readers
    /\ readers[lastOp.sock].inputMode = "bluetooth"

\* The buttons of the hat axes ABS_HAT0X (0x10) and ABS_HAT0Y (0x11).
HatButtons(code) ==
    IF code = 16 THEN [neg |-> "dpad_left", pos |-> "dpad_right"]
    ELSE [neg |-> "dpad_up", pos |-> "dpad_down"]

\* C17: a hat frame with recorded value prev (0 if unseen) and new value v
\* emits exactly a release of the button of prev's sign if prev is not 0,
\* then a press of the button of v's sign if v is not 0, and records v.
C17_HatEdges ==
    [][\A r \in DOMAIN readers, raw \in DecodeFrames :
          (raw.type = 3 /\ raw.code \in {16, 17} /\ ReadFrame(r, raw)) =>
            LET prev == IF raw.code \in DOMAIN readers[r].dpadState
                        THEN readers[r].dpadState[raw.code] ELSE 0
                v == raw.value
                b == HatButtons(raw.code)
                release == IF prev < 0 THEN <<NavEvt("button", b.neg, FALSE, 0)>>
                           ELSE IF prev > 0 THEN <<NavEvt("button", b.pos, FALSE, 0)>>
                           ELSE <<>>
                press == IF v < 0 THEN <<NavEvt("button", b.neg, TRUE, 0)>>
                         ELSE IF v > 0 THEN <<NavEvt("button", b.pos, TRUE, 0)>>
                         ELSE <<>>
            IN /\ lastOp'.nav = release \o press
               /\ readers'[r].dpadState[raw.code] = v]_vars

\* The hat flipped from -1 to +1: left released, then right pressed.
C17_Witness ==
    /\ lastOp.op = "read"
    /\ lastOp.nav = <<Button("dpad_left", FALSE), Button("dpad_right", TRUE)>>
    /\ lastOp.sock \in DOMAIN readers
    /\ readers[lastOp.sock].dpadState[16] = 1

\* C20: a session that opens starts with mode unknown, no hat state and no
\* cached axis value, whatever the sessions before it held, and the first
\* mapped frame of an axis in a session is emitted, also when its value is
\* the last one an earlier session emitted for that axis.
C20_FreshSession ==
    [][/\ \A r \in DOMAIN readers' \ DOMAIN readers : Fresh(readers'[r])
       /\ \A r \in DOMAIN readers, raw \in AxisFrames :
            (/\ MappedAxisFrame(raw)
             /\ r \in DOMAIN axisLog.live
             /\ AXIS_MAP[raw.code] \notin DOMAIN axisLog.live[r]
             /\ ReadFrame(r, raw))
            => \E i \in AxisEvents(lastOp'.nav) :
                  lastOp'.nav[i].name = AXIS_MAP[raw.code]]_vars

\* The first stick event of a session carries the value the session before
\* it emitted last, and the mode of the new session is not yet detected.
C20_Witness ==
    /\ lastOp.op = "read"
    /\ lastOp.sock \in DOMAIN readers
    /\ readers[lastOp.sock].inputMode = "unknown"
    /\ AxisEvents(lastOp.nav) # {}
    /\ lastOp.nav[1].name = "stick_x"
    /\ axisLog.live[lastOp.sock]["stick_x"].first
    /\ "stick_x" \in DOMAIN axisLog.closed
    /\ axisLog.closed["stick_x"] = lastOp.nav[1].value

\* C18: when opening the device fails, every connected consumer is sent
\* nav:disconnected with the failure message, the server keeps running with
\* a reconnect timer pending, and under fair scheduling the failure is
\* followed by the timer firing and that by a new open attempt, which
\* succeeds or fails again.
C18_OpenFailureRetries ==
    /\ [][lastOp'.op = "openfail" =>
            /\ sent' = <<Msg(DOMAIN sockets, "nav:disconnected", "Cannot open",
                             <<>>, -1, "", 0)>>
            /\ ~deviceConnected'
            /\ timers' = timers + 1
            /\ sockets' = sockets]_vars
    /\ (lastOp.op = "openfail") ~> (lastOp.op = "timer")
    /\ (lastOp.op = "timer") ~> (lastOp.op \in {"open", "openfail"})

\* An open attempt failed while a consumer was connected: the consumer was
\* sent nav:disconnected and the retry is pending.
C18_Witness ==
    /\ lastOp.op = "openfail"
    /\ DOMAIN sockets # {}
    /\ timers = 1
    /\ \E i \in 1..Len(sent) :
          sent[i].ev = "nav:disconnected" /\ sent[i].to = DOMAIN sockets

\* C19: when a read fails while the session is open, the reader emits error
\* and then close, once each, every consumer is sent one nav:disconnected,
\* one reconnect timer is added as for an open failure, and the reader is
\* left with no handle and no callback outstanding (it is no longer among
\* the live readers), so it issues no further read and reports nothing
\* more; a reader that is not reading never gets a handle or a new read.
C19_ReadError ==
    [][/\ \A r \in DOMAIN readers :
            (lastOp'.op = "readerror" /\ lastOp'.sock = r /\ readers[r].reading) =>
               /\ r \notin DOMAIN readers'
               /\ \A x \in DOMAIN readers' : x # r => readers'[x] = readers[x]
               /\ lastOp'.nav = <<NavEvt("error", "read error", FALSE, 0),
                                  NavEvt("close", "read error", FALSE, 0)>>
               /\ sent' = <<Msg(DOMAIN sockets, "nav:disconnected", "read error",
                                <<>>, -1, "", 0)>>
               /\ ~deviceConnected'
               /\ timers' = timers + 1
               /\ starting' = starting
       /\ \A r \in DOMAIN readers \cap DOMAIN readers' :
            ~readers[r].reading =>
               /\ ~readers'[r].reading
               /\ readers'[r].fd = "null"
               /\ readers'[r].reads <= readers[r].reads]_vars

\* A read failed on an open session while a consumer was connected: the
\* reader is gone and the retry is pending.
C19_Witness ==
    /\ lastOp.op = "readerror"
    /\ Len(lastOp.nav) = 2
    /\ lastOp.sock \notin DOMAIN readers
    /\ DOMAIN sockets # {}
    /\ timers = 1
    /\ ~deviceConnected

\* C21: a raw frame goes only to consumers whose latest subscribe:raw request
\* was true.  wantsRaw is false on connection, changes only in the
\* subscribe:raw handler of that socket, which stores the request; and every
\* receiver of a nav:raw message is a connected socket whose wantsRaw is true.
C21_RawOptIn ==
    [][/\ \A s \in DOMAIN sockets' :
             IF s \in DOMAIN sockets
             THEN sockets'[s].wantsRaw # sockets[s].wantsRaw
                    => lastOp'.op = "subscribe:raw" /\ lastOp'.sock = s
             ELSE ~sockets'[s].wantsRaw
       /\ \A s \in DOMAIN sockets, enabled \in BOOLEAN :
             SubscribeRaw(s, enabled) => sockets'[s].wantsRaw = enabled
       /\ \A i \in Of(sent', "nav:raw") :
             /\ lastOp'.op = "read"
             /\ \A s \in sent'[i].to :
                   s \in DOMAIN sockets' /\ sockets'[s].wantsRaw]_vars

\* A frame was read whose raw copy went to a consumer, while the active
\* consumer, which has not opted in, received none.
C21_Witness ==
    /\ lastOp.op = "read"
    /\ Of(sent, "nav:raw") # {}
    /\ getActiveSocket(RouterState) # NoSocket
    /\ ~sockets[getActiveSocket(RouterState)].wantsRaw
    /\ \A i \in Of(sent, "nav:raw") : getActiveSocket(RouterState) \notin sent[i].to

\* The client:list message that carries the router state after the step to
\* the sockets in `to`.
SnapshotNow(to) ==
    Msg(to, "client:list",
        IF activeIndex' >= 0 THEN registeredClients'[activeIndex' + 1].serviceName
        ELSE Null,
        registeredClients', activeIndex', "", 0)

\* C22: a register, an unregister of a registered consumer, a cycleActive on
\* a non-empty registry, and any step that changes the registry or the
\* active index, emit as their last message a client:list to every connected
\* socket that carries the registry, activeIndex and active name the step
\* leaves; and every client:list message of any step carries that state.
C22_SnapshotBroadcast ==
    [][/\ (\/ registeredClients' # registeredClients
           \/ activeIndex' # activeIndex
           \/ lastOp'.op = "register"
           \/ lastOp'.op = "disconnect" /\ lastOp'.idx >= 0
           \/ lastOp'.op = "read" /\ PsPressed(lastOp'.nav)
                /\ Len(registeredClients) > 0)
          => /\ sent' # <<>>
             /\ sent'[Len(sent')] = SnapshotNow(DOMAIN sockets')
       /\ \A i \in Of(sent', "client:list") : sent'[i] = SnapshotNow(sent'[i].to)]_vars

\* The active consumer disconnected and one consumer remains registered: the
\* step ended with the snapshot of that registry, sent to every socket that
\* is still connected.
C22_Witness ==
    /\ lastOp.op = "disconnect"
    /\ lastOp.idx = lastOp.prev
    /\ Len(registeredClients) = 1
    /\ sent # <<>>
    /\ sent[Len(sent)].ev = "client:list"
    /\ sent[Len(sent)].to = DOMAIN sockets
    /\ sent[Len(sent)].list = registeredClients

\* C23: the disconnect of a socket that has no registry entry (it never
\* registered) leaves registeredClients and activeIndex as they were and
\* emits no message at all: no activated, no deactivated, no client:list;
\* the handler returns normally, the socket being gone afterwards.
C23_UnregisterAbsent ==
    [][\A s \in DOMAIN sockets :
          (findIndex(registeredClients, s) < 0 /\ Disconnect(s))
          => /\ registeredClients' = registeredClients
             /\ activeIndex' = activeIndex
             /\ sent' = <<>>
             /\ DOMAIN sockets' = DOMAIN sockets \ {s}
             /\ navClients' = [x \in DOMAIN sockets' |-> navClients[x]]]_vars

\* An observer disconnected while a consumer is registered and active.
C23_Witness ==
    /\ lastOp.op = "disconnect"
    /\ lastOp.idx < 0
    /\ Len(registeredClients) > 0
    /\ activeIndex = lastOp.prev
    /\ sent = <<>>

\* C24: a read that returns another byte count than the frame width emits
\* nothing (no raw frame, no semantic event, no error, no close), leaves the
\* session's mode, hat state and axis cache, its handle and its reading flag
\* as they were, leaves the router and the reconnect state alone, and
\* schedules the next readLoop, which on an open session issues the next read.
C24_ShortRead ==
    [][\A r \in DOMAIN readers :
          /\ (lastOp'.op = "short" /\ lastOp'.sock = r)
             => /\ sent' = <<>>
                /\ lastOp'.nav = <<>>
                /\ r \in DOMAIN readers'
                /\ readers'[r] = [readers[r] EXCEPT !.reads = @ - 1,
                                                    !.immediates = @ + 1]
                /\ UNCHANGED <<sockets, registeredClients, activeIndex,
                               deviceConnected, starting, timers, axisLog,
                               navClients>>
          /\ (/\ lastOp'.op = "readloop" /\ lastOp'.sock = r
              /\ readers[r].reading /\ readers[r].fd # "null")
             => /\ r \in DOMAIN readers'
                /\ readers'[r].reads = readers[r].reads + 1]_vars

\* A short read on a session that has detected its mode and holds a hat
\* value and a cached axis value; the next readLoop is scheduled.
C24_Witness ==
    /\ lastOp.op = "short"
    /\ lastOp.sock \in DOMAIN readers
    /\ readers[lastOp.sock].inputMode # "unknown"
    /\ readers[lastOp.sock].dpadState # <<>>
    /\ readers[lastOp.sock].lastStickValue # <<>>
    /\ readers[lastOp.sock].immediates = 1

\* C25: a session has at most one callback of its read cycle outstanding,
\* either the fs.read it issued or the setImmediate that will issue the next
\* one; so at most one read is outstanding on its handle, and a read is
\* issued only after the callback of the previous one has run to its end.
C25_SingleOutstandingRead ==
    \A r \in DOMAIN readers : readers[r].reads + readers[r].immediates <= 1

\* An open session whose read has completed with a frame and whose next
\* readLoop is scheduled, with no read outstanding in between.
C25_Witness ==
    /\ lastOp.op = "read"
    /\ lastOp.sock \in DOMAIN readers
    /\ readers[lastOp.sock].reading
    /\ readers[lastOp.sock].reads = 0
    /\ readers[lastOp.sock].immediates = 1

\* Re-encoding of the five decoded fields in the layout of the frame: the
\* time fields as unsigned integers of 8 or 4 bytes (a number that needs
\* more digits cannot be written), type and code as unsigned 16-bit
\* integers, value as a signed 32-bit integer, all lowest byte first.
WriteUInt(n, width) == IF Len(n) = width THEN n ELSE <<>>

WriteUInt16(v) == <<v % 256, v \div 256>>

WriteInt32(v) == [i \in 1..4 |-> (v \div (256 ^ (i - 1))) % 256]

Encode(eventSize, raw) ==
    LET width == IF eventSize = EVENT_SIZE_64 THEN 8 ELSE 4
    IN WriteUInt(raw.timeSec, width) \o WriteUInt(raw.timeUsec, width)
       \o WriteUInt16(raw.type) \o WriteUInt16(raw.code) \o WriteInt32(raw.value)

\* Both time fields of a wide frame are below 2^53.
TimesBelow2p53(buf) ==
    Len(buf) = EVENT_SIZE_64
    => /\ buf[8] = 0 /\ buf[7] < 32
       /\ buf[16] = 0 /\ buf[15] < 32

C27_ActiveIffNonEmpty ==
    /\ activeIndex = -1 <=> registeredClients = <<>>
    /\ registeredClients # <<>>
         => /\ activeIndex \in 0..(Len(registeredClients) - 1)
            /\ Cardinality({i \in 1..Len(registeredClients) :
                    registeredClients[i].socketId =
                        ActiveId(registeredClients, activeIndex)}) = 1

\* The active consumer, last of two in the registry, disconnected: the
\* index wrapped to the consumer that remains.
C27_Witness ==
    /\ lastOp.op = "disconnect"
    /\ lastOp.idx = 1
    /\ lastOp.prev = 1
    /\ Len(registeredClients) = 1
    /\ activeIndex = 0

\* C28: a frame that maps to one semantic event delivers it at most once to
\* each connected consumer: no socket is a receiver of two of the messages
\* the routing of that event emitted.
C28_DeliveredAtMostOnce ==
    (lastOp.op = "read" /\ Len(lastOp.nav) = 1)
    => \A i, j \in Of(sent, "nav:button") \cup Of(sent, "nav:axis") :
          i # j => sent[i].to \cap sent[j].to = {}

\* C29: with the notifications handled in the order they were sent, the
\* isActive flag of the client behind every connected registered socket is
\* true exactly when that socket is the active consumer (a client that was
\* sent neither notification has the flag false).
C29_IsActiveAgrees ==
    \A s \in DOMAIN sockets :
        Registered(s)
        => /\ s \in DOMAIN navClients
           /\ navClients[s] <=> ActiveId(registeredClients, activeIndex) = s

\* A ps press moved the active role between two registered consumers: the
\* client that was active has been told deactivated, the other activated.
C29_Witness ==
    /\ lastOp.op = "read"
    /\ PsPressed(lastOp.nav)
    /\ Len(registeredClients) = 2
    /\ lastOp.prev # activeIndex
    /\ navClients[registeredClients[activeIndex + 1].socketId]
    /\ ~navClients[registeredClients[lastOp.prev + 1].socketId]
    /\ Of(sent, "client:deactivated") # {}

\* C30: of the frames of one physical press of the PS button (code 0x13c
\* with value 1, then value 2 repeated, then value 0) only the first rotates
\* the active consumer: reading an auto-repeat frame or the release frame
\* leaves activeIndex as it was and notifies nobody of an activation.
C30_RepeatDoesNotRotate ==
    [][\A r \in DOMAIN readers, v \in {2, 0} :
          ReadFrame(r, Raw(EV_KEY, 316, v))
          => /\ activeIndex' = activeIndex
             /\ Of(sent', "client:activated") = {}
             /\ Of(sent', "client:deactivated") = {}]_vars

\* The readers that hold an open handle in the reader map rds.
OpenReaders(rds) == {r \in DOMAIN rds : rds[r].fd = "open"}

\* C31: after every step at most one reader holds an open handle, and open
\* handles, pending reconnect timers and start attempts under way together
\* number exactly one, so live readers never accumulate; a session that
\* closes by an open failure or by a read error emits close once, sends one
\* nav:disconnected and adds one reconnect timer.
C31_OneOpenHandle ==
    [][/\ Cardinality(OpenReaders(readers')) <= 1
       /\ Cardinality(OpenReaders(readers')) + timers' + starting' = 1
       /\ (\/ lastOp'.op = "openfail"
           \/ /\ lastOp'.op = "readerror"
              /\ lastOp'.sock \in DOMAIN readers
              /\ readers[lastOp'.sock].reading)
          => /\ Cardinality({i \in 1..Len(lastOp'.nav) :
                                lastOp'.nav[i].kind = "close"}) = 1
             /\ Cardinality(Of(sent', "nav:disconnected")) = 1
             /\ timers' = timers + 1
             /\ OpenReaders(readers') = {}]_vars

\* A new session is open while the reader of a stopped session still waits
\* for its last read: two reader objects, one open handle.
C31_Witness ==
    /\ lastOp.op = "open"
    /\ Cardinality(DOMAIN readers) = 2
    /\ Cardinality(OpenReaders(readers)) = 1
    /\ timers = 0
    /\ starting = 0

\* C32: a reader whose session has closed (reading is false, after a stop or
\* a read error) completes no read with a frame: it emits no raw frame and
\* no semantic event any more.
C32_SilentAfterClose ==
    [][\A r \in DOMAIN readers :
          ~readers[r].reading => ~(lastOp'.op = "read" /\ lastOp'.sock = r)]_vars

\* Neither hat axis has its negative and its positive button both in `held`.
NotBothDirections(held) ==
    \A code \in {16, 17} :
        ~({HatButtons(code).neg, HatButtons(code).pos} \subseteq held)

\* Taken in order from the buttons in `held`, every event of `events` is a
\* press of a button that is not held or a release of one that is, and at
\* no point are both buttons of an axis held.
RECURSIVE Alternates(_, _)
Alternates(held, events) ==
    IF events = <<>> THEN TRUE
    ELSE LET e == Head(events)
             held1 == IF e.pressed THEN held \cup {e.name} ELSE held \ {e.name}
         IN /\ e.pressed <=> e.name \notin held
            /\ NotBothDirections(held1)
            /\ Alternates(held1, Tail(events))

\* C33: in a session, the button events of every hat frame continue the
\* alternation of each D-pad button: with the buttons the session's earlier
\* hat events left pressed (none at its start), each event is a press of a
\* released button or a release of a pressed one, and the two buttons of
\* one hat axis are never both pressed, during the frame or after it.
C33_HatAlternation ==
    [][\A r \in DOMAIN readers, raw \in DecodeFrames :
          (/\ raw.type = EV_ABS
           /\ raw.code \in {16, 17}
           /\ ReadFrame(r, raw))
          => /\ r \in DOMAIN dpadPressed
             /\ Alternates(dpadPressed[r], lastOp'.nav)
             /\ NotBothDirections(dpadPressed'[r])]_vars

\* The horizontal hat repeated the value 1 while the vertical hat holds
\* down: right was released and pressed again.
C33_Witness ==
    /\ lastOp.op = "read"
    /\ lastOp.nav = <<Button("dpad_right", FALSE), Button("dpad_right", TRUE)>>
    /\ lastOp.sock \in DOMAIN dpadPressed
    /\ dpadPressed[lastOp.sock] = {"dpad_right", "dpad_down"}

====
